---- MODULE Spec2Model ----
(***************************************************************************)
(* LogarithmicSpectrum: the Histogram / Interval rebinning engine          *)
(* (src/logspectra/histogram).                                             *)
(*                                                                         *)
(* Numbers.  Edges are small integers.  Bin values are floating-point      *)
(* numbers, modelled on an integer grid: the value v is stored as the      *)
(* integer v * Unit, where Unit is divisible, twice over, by every bin     *)
(* width the model can form, so that the quotients a rebin of a rebin      *)
(* computes fall on the grid.  Every arithmetic result is rounded to Mant  *)
(* significant bits (round to nearest, ties to even), as IEEE arithmetic   *)
(* does with 53: with small values nothing is rounded (Spec), with values  *)
(* near 2^Mant the cumulative sums are (SpecRound).  One grid step is the   *)
(* least positive number: a quotient of a value of a few steps is rounded  *)
(* to a whole step, as a quotient of subnormal numbers is.                 *)
(*                                                                         *)
(* A behaviour is one caller's run: a construction, then one call on the   *)
(* histogram, then possibly a call on what that call returned.  The calls  *)
(* are pure, so longer runs reach no other outcomes.                       *)
(*                                                                         *)
(* Specifications.  Spec and SpecRound: construction and rebin.            *)
(* SpecShared: the same, the caller writing to the arrays it passed.       *)
(* SpecStore: rebin, the caller writing to the edges of what it returned.  *)
(* SpecAccess: construction and the accessors (interval, iteration, range, *)
(* widths, width, density, densities) with their caches.  SpecMemo: the    *)
(* accessors, the caller writing to the arrays it passed.  SpecInterval:   *)
(* the operations of Interval.  SpecSpectrum: calculate_spectrum and       *)
(* calculate_log_spectrum (src/logspectra/spectrum).                       *)
(***************************************************************************)
EXTENDS Integers, Sequences, FiniteSets, TLC

\* ----------------------------------------------------------------- bounds
MaxEdge == 3
MaxVal == 1
MaxBad == 2
Mant == 18
MaxCutoff == 6
MaxComponents == 3

\* ------------------------------------------------------------- arithmetic
Abs(x) == IF x < 0 THEN -x ELSE x

Max2(a, b) == IF a >= b THEN a ELSE b

Min2(a, b) == IF a <= b THEN a ELSE b

RECURSIVE Gcd(_, _)
Gcd(a, b) == IF b = 0 THEN a ELSE Gcd(b, a % b)

Lcm(a, b) == (a * b) \div Gcd(a, b)

RECURSIVE LcmOf(_)
LcmOf(S) == IF S = {} THEN 1 ELSE LET x == CHOOSE y \in S : TRUE IN Lcm(x, LcmOf(S \ {x}))

\* The edge arrays of the documentation's worked examples.
ExampleEdges == { <<0, 2, 5, 10>>, <<0, 10>>, <<0, 5, 10>>, <<5, 20>> }

\* Every bin width the model can form: of edges in 0..MaxEdge, and of the examples.
Widths == (1..MaxEdge) \cup UNION {{e[k + 1] - e[k] : k \in 1..(Len(e) - 1)} : e \in ExampleEdges}

\* The grid: one unit of bin value is Unit grid steps.
Unit == (2 * LcmOf(Widths)) * (2 * LcmOf(Widths))

RECURSIVE Pow2(_)
Pow2(k) == IF k <= 0 THEN 1 ELSE 2 * Pow2(k - 1)

\* Number of binary digits of n >= 0.
RECURSIVE Bits(_)
Bits(n) == IF n <= 0 THEN 0 ELSE 1 + Bits(n \div 2)

\* The multiple of q nearest to n >= 0, a tie going to the even multiple.
NearestEven(n, q) ==
    LET lo == n \div q
        r == n % q
    IN  IF 2 * r < q THEN lo * q
        ELSE IF 2 * r > q THEN (lo + 1) * q
        ELSE IF lo % 2 = 0 THEN lo * q ELSE (lo + 1) * q

\* The least magnitude of more than Mant bits.
Prec == Pow2(Mant)

\* Rounding of an exact result to Mant significant bits: a magnitude below
\* Prec is kept as it is.
Rnd(x) ==
    LET a == Abs(x)
        q == Pow2(Bits(a) - Mant)
        r == NearestEven(a, q)
    IN  IF a < Prec THEN x
        ELSE IF x < 0 THEN -r ELSE r

FlAdd(a, b) == Rnd(a + b)

FlSub(a, b) == Rnd(a - b)

FlMul(a, k) == Rnd(a * k)

\* a / k for k > 0: the nearest grid point to the quotient, then rounded.
FlDiv(a, k) ==
    LET n == NearestEven(Abs(a), k) \div k
    IN  Rnd(IF a < 0 THEN -n ELSE n)

\* ------------------------------------------------------------------ utils
\* is_increasing with ties let through (>= for >).
IsIncreasingLoose(array) == \A i \in 1..(Len(array) - 1) : array[i + 1] - array[i] >= 0

\* is_increasing: all(diff(array) > 0); vacuously true of 0 or 1 elements.
IsIncreasing(array) == \A i \in 1..(Len(array) - 1) : array[i + 1] - array[i] > 0

\* --------------------------------------------------------------- Interval
Interval(l, r) == [left |-> l, right |-> r]

\* Interval.__bool__
IsValid(iv) == iv.left < iv.right

\* length without the validity check: right - left, negative when inverted.
LengthSigned(iv) == iv.right - iv.left

\* Interval.length
Length(iv) == IF ~IsValid(iv) THEN 0 ELSE iv.right - iv.left

\* midpoint without the validity check.
MidpointUnchecked(iv) == <<FlDiv(FlAdd(iv.left * Unit, iv.right * Unit), 2)>>

\* Interval.midpoint, the coordinate x stored as x * Unit: <<m>>, or <<>> for
\* None.
Midpoint(iv) == IF ~IsValid(iv) THEN <<>> ELSE <<FlDiv(FlAdd(iv.left * Unit, iv.right * Unit), 2)>>

\* The hull of the two intervals (min and max exchanged).
IntersectionHull(a, b) == Interval(Min2(a.left, b.left), Max2(a.right, b.right))

\* Interval.intersection
Intersection(a, b) == Interval(Max2(a.left, b.left), Min2(a.right, b.right))

\* contains with the endpoints excluded (< for <=).
ContainsStrict(a, b) == a.left < b.left /\ a.right > b.right

\* Interval.contains
Contains(a, b) == a.left <= b.left /\ a.right >= b.right

\* relative_measure with the other interval's length as the denominator.
RelativeMeasureOfOther(a, b) ==
    IF ~IsValid(b) THEN 0
    ELSE FlDiv(Length(Intersection(a, b)) * Unit, Length(b))

\* Interval.relative_measure: a fraction, the fraction f stored as f * Unit.
RelativeMeasure(a, b) ==
    IF ~IsValid(a) THEN 0
    ELSE FlDiv(Length(Intersection(a, b)) * Unit, Length(a))

\* from_edges with the check of the length left out.
FromEdgesAnyLength(edges) ==
    IF ~IsIncreasing(edges) THEN [outcome |-> "ValueError", value |-> <<>>]
    ELSE [outcome |-> "ok",
          value |-> [k \in 1..(Len(edges) - 1) |-> Interval(edges[k], edges[k + 1])]]

\* Interval.from_edges: the list of intervals, or the error raised.
FromEdges(edges) ==
    IF Len(edges) < 2 THEN [outcome |-> "ValueError", value |-> <<>>]
    ELSE IF ~IsIncreasing(edges) THEN [outcome |-> "ValueError", value |-> <<>>]
    ELSE [outcome |-> "ok",
          value |-> [k \in 1..(Len(edges) - 1) |-> Interval(edges[k], edges[k + 1])]]

\* -------------------------------------------------------------- Histogram
Hist(e, v) == [edges |-> e, values |-> v]

\* No histogram (a failed construction, or nothing returned).
NoHist == Hist(<<>>, <<>>)

\* Histogram.__post_init__ on two arrays: the error it raises, or "ok".
PostInit(edges, values) ==
    IF Len(edges) # Len(values) + 1 THEN "ValueError"
    ELSE IF Len(edges) < 2 THEN "ValueError"
    ELSE IF ~IsIncreasing(edges) THEN "ValueError"
    ELSE "ok"

\* Histogram.__len__
NBins(h) == Len(h.values)

\* Histogram.range
Range(h) == Interval(h.edges[1], h.edges[Len(h.edges)])

\* np.sum, left to right.
RECURSIVE SumTo(_, _)
SumTo(s, k) == IF k = 0 THEN 0 ELSE FlAdd(SumTo(s, k - 1), s[k])

Sum(s) == SumTo(s, Len(s))

\* The cumulative sums without the leading 0, padded at the end instead.
CumSumNoZero(values) == [k \in 1..(Len(values) + 1) |-> SumTo(values, Min2(k, Len(values)))]

\* np.concatenate([[0], np.cumsum(values)]): entry k + 1 is the mass left of
\* edge k + 1, each partial sum rounded as it is formed.
CumSum(values) == [k \in 1..(Len(values) + 1) |-> SumTo(values, k - 1)]

\* np.diff with the operands exchanged.
DiffReversed(s) == [k \in 1..(Len(s) - 1) |-> FlSub(s[k], s[k + 1])]

\* np.diff
Diff(s) == [k \in 1..(Len(s) - 1) |-> FlSub(s[k + 1], s[k])]

\* The index j of the knot with xp[j] <= x, for xp[1] <= x <= xp[Len(xp)].
Knot(x, xp) == CHOOSE j \in 1..Len(xp) : xp[j] <= x /\ \A k \in 1..Len(xp) : xp[k] <= x => k <= j

\* Interpolation that extrapolates the first and last segments instead of
\* clamping to left and right.
InterpExtrapolate(x, xp, fp, left, right) ==
    LET j == IF x < xp[1] THEN 1
             ELSE IF x >= xp[Len(xp)] THEN Len(xp) - 1
             ELSE Knot(x, xp)
        slope == FlDiv(FlSub(fp[j + 1], fp[j]), xp[j + 1] - xp[j])
    IN  FlAdd(FlMul(slope, x - xp[j]), fp[j])

\* np.interp(x, xp, fp, left, right) at one point x, xp increasing.
Interp(x, xp, fp, left, right) ==
    IF x < xp[1] THEN left
    ELSE IF x > xp[Len(xp)] THEN right
    ELSE LET j == Knot(x, xp)
         IN  IF j = Len(xp) \/ xp[j] = x THEN fp[j]
             ELSE LET slope == FlDiv(FlSub(fp[j + 1], fp[j]), xp[j + 1] - xp[j])
                  IN  FlAdd(FlMul(slope, x - xp[j]), fp[j])

\* RebinValues with the mass right of the last edge forgotten (right=0).
RebinValuesRightZero(h, target) ==
    LET cumsum == CumSum(h.values)
        interpolation == [k \in 1..Len(target) |-> Interp(target[k], h.edges, cumsum, 0, 0)]
    IN  Diff(interpolation)

\* Histogram._rebin from line 216 on: the values of the rebinned histogram.
RebinValues(h, target) ==
    LET cumsum == CumSum(h.values)
        interpolation == [k \in 1..Len(target) |->
                             Interp(target[k], h.edges, cumsum, 0, cumsum[Len(cumsum)])]
    IN  Diff(interpolation)

\* What a call leaves behind: how it ended, whether the range warning was
\* emitted before it ended, and the histogram it returned.
Outcome(o, w, r) == [outcome |-> o, warned |-> w, result |-> r]

\* _rebin returning the arrays as they are, the constructor's checks left out.
RebinInnerUnchecked(h, target, w) ==
    IF ~IsIncreasing(target) THEN Outcome("ValueError", w, NoHist)
    ELSE Outcome("ok", w, Hist(target, RebinValues(h, target)))

\* Histogram._rebin on an edge array, the warning state w carried through.
RebinInner(h, target, w) ==
    IF ~IsIncreasing(target) THEN Outcome("ValueError", w, NoHist)
    ELSE LET values == RebinValues(h, target)
         IN  IF PostInit(target, values) = "ok"
             THEN Outcome("ok", w, Hist(target, values))
             ELSE Outcome(PostInit(target, values), w, NoHist)

\* Histogram.validate_overlap: TRUE when the warning is emitted.
ValidateOverlap(h, edges) == ~Contains(Interval(edges[1], edges[Len(edges)]), Range(h))

\* Lines 176-177 of Histogram.rebin, on the normalised edges; indexing an
\* empty array in validate_overlap raises IndexError.
RebinEdges(h, edges) ==
    IF Len(edges) = 0 THEN Outcome("IndexError", FALSE, NoHist)
    ELSE RebinInner(h, edges, ValidateOverlap(h, edges))

\* rebin taking whatever is neither an Interval nor a Histogram for an array.
RebinUntyped(h, form, tgt) ==
    IF form = "Interval" THEN RebinEdges(h, <<tgt.left, tgt.right>>)
    ELSE IF form = "Histogram" THEN RebinEdges(h, tgt.edges)
    ELSE IF ~IsIncreasing(tgt) THEN Outcome("ValueError", FALSE, NoHist)
    ELSE RebinEdges(h, tgt)

\* Histogram.rebin(target_bins).  form is the kind of target_bins; tgt is
\* its content: an Interval, an array, or a Histogram.
Rebin(h, form, tgt) ==
    IF form = "Interval" THEN RebinEdges(h, <<tgt.left, tgt.right>>)
    ELSE IF form = "ndarray"
         THEN IF ~IsIncreasing(tgt) THEN Outcome("ValueError", FALSE, NoHist)
              ELSE RebinEdges(h, tgt)
    ELSE IF form = "Histogram" THEN RebinEdges(h, tgt.edges)
    ELSE Outcome("TypeError", FALSE, NoHist)

\* Whether the edges array handed to _rebin, which the returned histogram
\* keeps, is the caller's own array, had rebin passed it on without .copy().
EdgesSharedNoCopy(form) == form \in {"ndarray", "Histogram"}

\* Whether the edges array handed to _rebin, which the returned histogram
\* keeps, is the caller's own array: never, np.array([...]) builds a new array
\* and .copy() copies.
EdgesShared(form) == FALSE

\* ------------------------------------------------- Histogram: the accessors
\* What an accessor call leaves behind: how it ended, the value it returned
\* (a sequence: one number, an array, the two ends of an Interval, or the
\* pairs an iteration yielded), and whether the zero-width branch was taken.
Got(o, v) == [outcome |-> o, value |-> v, guarded |-> FALSE]

\* arr[i] as NumPy indexes: 0-based, a negative i counted from the end.
NpIndex(arr, i) ==
    IF i >= Len(arr) \/ i < -Len(arr) THEN Got("IndexError", <<>>)
    ELSE Got("ok", <<arr[(IF i < 0 THEN i + Len(arr) ELSE i) + 1]>>)

\* interval(i) with the bounds check left to NumPy's indexing.
IntervalAtUnchecked(hh, i) ==
    IF i + 1 >= Len(hh.edges) \/ i < -Len(hh.edges) THEN Got("IndexError", <<>>)
    ELSE LET k == (IF i < 0 THEN i + Len(hh.edges) ELSE i) + 1
         IN  Got("ok", <<hh.edges[k], hh.edges[IF i = -1 THEN 1 ELSE k + 1]>>)

\* Histogram.interval(i)
IntervalAt(hh, i) ==
    IF ~(0 <= i /\ i < NBins(hh)) THEN Got("IndexError", <<>>)
    ELSE Got("ok", <<hh.edges[i + 1], hh.edges[i + 2]>>)

\* Histogram.__iter__, run to its end: the pairs (interval(i), values[i]).
Iterate(hh) ==
    Got("ok", [k \in 1..NBins(hh) |->
                  <<IntervalAt(hh, k - 1).value[1], IntervalAt(hh, k - 1).value[2], hh.values[k]>>])

\* Histogram.range, computed.
RangeOf(hh) == Got("ok", <<Range(hh).left, Range(hh).right>>)

\* Histogram.widths, computed: np.diff(edges).
WidthsOf(hh) == Got("ok", Diff(hh.edges))

\* Histogram.width(i), computed, from the widths array it is handed.
WidthOf(widths, i) == NpIndex(widths, i)

\* Histogram.density(i), computed.
DensityOf(hh, i) ==
    LET iv == IntervalAt(hh, i)
    IN  IF iv.outcome # "ok" THEN iv
        ELSE LET interval == Interval(iv.value[1], iv.value[2])
                 value == NpIndex(hh.values, i)
             IN  IF ~IsValid(interval) THEN [Got("ok", <<0>>) EXCEPT !.guarded = TRUE]
                 ELSE IF value.outcome # "ok" THEN value
                 ELSE Got("ok", <<FlDiv(value.value[1], Length(interval))>>)

\* astype: a float stored into an array of the given dtype; an integer dtype
\* drops the fractional part (towards zero).
Cast(x, dt) ==
    IF dt = "int64" THEN (IF x < 0 THEN -((-x) \div Unit) ELSE x \div Unit) * Unit
    ELSE x

\* The caches: what the three cached properties hold on the instance (<<>>:
\* not computed yet), and the entries of the two @cache tables, which are
\* keyed by the receiver's content (its __hash__ and __eq__) and the index.
NoMemo == [range |-> <<>>, widths |-> <<>>, densities |-> <<>>, width |-> {}, density |-> {}]

Entry(hh, i, v) == [self |-> hh, i |-> i, value |-> v]

Hits(table, hh, i) == {e \in table : e.self = hh /\ e.i = i}

\* A call and the caches it leaves.
Ran(g, m) == [got |-> g, memo |-> m]

\* @cached_property range
CachedRange(hh, m) ==
    IF m.range # <<>> THEN Ran(Got("ok", m.range), m)
    ELSE Ran(RangeOf(hh), [m EXCEPT !.range = RangeOf(hh).value])

\* @cached_property widths
CachedWidths(hh, m) ==
    IF m.widths # <<>> THEN Ran(Got("ok", m.widths), m)
    ELSE Ran(WidthsOf(hh), [m EXCEPT !.widths = WidthsOf(hh).value])

\* @cache width(i): a hit returns the entry; a miss indexes self.widths and
\* keeps what it returned (a raised error is not kept).
CachedWidth(hh, m, i) ==
    IF Hits(m.width, hh, i) # {}
    THEN Ran(Got("ok", (CHOOSE e \in Hits(m.width, hh, i) : TRUE).value), m)
    ELSE LET w == CachedWidths(hh, m)
             g == WidthOf(w.got.value, i)
         IN  IF g.outcome # "ok" THEN Ran(g, w.memo)
             ELSE Ran(g, [w.memo EXCEPT !.width = @ \cup {Entry(hh, i, g.value)}])

\* @cache density(i)
CachedDensity(hh, m, i) ==
    IF Hits(m.density, hh, i) # {}
    THEN Ran(Got("ok", (CHOOSE e \in Hits(m.density, hh, i) : TRUE).value), m)
    ELSE LET g == DensityOf(hh, i)
         IN  IF g.outcome # "ok" THEN Ran(g, m)
             ELSE Ran(g, [m EXCEPT !.density = @ \cup {Entry(hh, i, g.value)}])

\* @cached_property densities: the list of density(i), i in range(len(self)),
\* made an array of the dtype of values.
CachedDensities(hh, dt, m) ==
    IF m.densities # <<>> THEN Ran(Got("ok", m.densities), m)
    ELSE LET each == [k \in 1..NBins(hh) |-> CachedDensity(hh, m, k - 1)]
             arr == [k \in 1..NBins(hh) |-> Cast(each[k].got.value[1], dt)]
             kept == m.density \cup UNION {each[k].memo.density : k \in 1..NBins(hh)}
         IN  Ran(Got("ok", arr), [m EXCEPT !.densities = arr, !.density = kept])

\* The call hh.op or hh.op(i), the caches being m.
Access(hh, dt, m, op, i) ==
    IF op = "range" THEN CachedRange(hh, m)
    ELSE IF op = "widths" THEN CachedWidths(hh, m)
    ELSE IF op = "densities" THEN CachedDensities(hh, dt, m)
    ELSE IF op = "width" THEN CachedWidth(hh, m, i)
    ELSE IF op = "density" THEN CachedDensity(hh, m, i)
    ELSE IF op = "interval" THEN Ran(IntervalAt(hh, i), m)
    ELSE Ran(Iterate(hh), m)

\* ------------------------------------------------------------------ state
VARIABLES
    h,      \* the histogram the caller constructed, as it is now (NoHist: none yet)
    born,   \* the edges and values h was constructed with
    call,   \* the latest call: its receiver and arguments as passed, and its Outcome
    first,  \* in h.rebin(t1).rebin(t2): the call h.rebin(t1), while call is the second
    wide,   \* whether the caller's values reach magnitudes near 2^Mant
    dtype,  \* the dtype of h.values
    heap,   \* the arrays of the latest rebin call: the target's edges as they are
            \* now, whether the target is h's own edges array (or h itself), and
            \* whether the result keeps the target's array as its edges
    memo,   \* what the cached properties and the @cache tables hold
    acc,    \* the latest accessor call: receiver and index as passed, what it
            \* returned, and n, how many accessor calls were made so far
    ivc,    \* the latest call on an Interval: the interval a, the argument b
            \* (or the edges passed to from_edges), and what the call returned
    sp      \* the latest call of calculate_spectrum or calculate_log_spectrum:
            \* its arguments, the linear spectrum, the log-even bands, and how
            \* the call ended

vars == <<h, born, call, first, wide, dtype, heap, memo, acc, ivc, sp>>

\* ----------------------------------------------------------------- inputs
Coords == 0..MaxEdge

SeqsUpTo(S, n) == UNION {[1..k -> S] : k \in 0..n}

\* Strictly increasing edge arrays of two or more edges.
EdgeArrays == {s \in SeqsUpTo(Coords, MaxEdge + 1) : Len(s) >= 2 /\ IsIncreasing(s)}

\* Arrays a caller may pass: the well-formed ones and every short array,
\* well-formed or not (empty, one edge, ties, descending).
Arrays == EdgeArrays \cup SeqsUpTo(Coords, MaxBad)

\* The largest number with no rounding: Mant one-bits.
Big == Pow2(Mant) - 1

\* The values a caller draws from: small multiples of the unit, or, in the
\* wide regime, magnitudes at the precision limit, of either sign.
Vals(w) == IF w THEN {Unit, Big, -Big} ELSE {v * Unit : v \in 0..MaxVal}

ValueArrays(w) == SeqsUpTo(Vals(w), MaxEdge)

\* The worked examples of the documentation, the value v stored as v * Unit:
\* Histogram([0,2,5,10], [1,2,1.5]), Histogram([0,10], [5]), and the two
\* constructions that must fail, ([0,1,2], [1,2,3]) and ([1,0], [5]).
ExampleArgs ==
    { <<<<0, 2, 5, 10>>, <<Unit, 2 * Unit, (3 * Unit) \div 2>>>>,
      <<<<0, 10>>, <<5 * Unit>>>>,
      <<<<0, 1, 2>>, <<Unit, 2 * Unit, 3 * Unit>>>>,
      <<<<1, 0>>, <<5 * Unit>>>> }

\* Their rebin targets: [0,10], [0,5,10] and [5,20].
ExampleTargets == ExampleEdges \ { <<0, 2, 5, 10>> }

\* Histogram([0., 5.], [1.5e-323]): one value of three times the least
\* positive number, which is one grid step.
SmallArgs == { <<<<0, 5>>, <<3>>>> }

\* Its rebin target, [4., 5.].
SmallTargets == { <<4, 5>> }

ConstructArgs(w) ==
    (Arrays \X ValueArrays(w)) \cup ExampleArgs \cup (IF w THEN SmallArgs ELSE {})

NoCall == [op |-> "none", form |-> "none", target |-> <<>>, self |-> NoHist,
           outcome |-> "none", warned |-> FALSE, result |-> NoHist]

CallOf(op, form, target, self, out) ==
    [op |-> op, form |-> form, target |-> target, self |-> self,
     outcome |-> out.outcome, warned |-> out.warned, result |-> out.result]

NoHeap == [target |-> <<>>, own |-> FALSE, shared |-> FALSE]

NoAcc == [op |-> "none", i |-> 0, self |-> NoHist, outcome |-> "none", value |-> <<>>,
          guarded |-> FALSE, n |-> 0]

NoIvc == [op |-> "none", a |-> Interval(0, 0), b |-> Interval(0, 0), edges |-> <<>>,
          outcome |-> "none", value |-> 0]

\* The call a.op(b) that returned v.
IvcOf(op, a, b, v) ==
    [op |-> op, a |-> a, b |-> b, edges |-> <<>>, outcome |-> "ok", value |-> v]

\* --------------------------------------------------------------- spectrum
\* Frequencies are floating-point numbers too, stored in grid steps: the
\* frequency f is the integer f * FreqUnit, and one step stands for the last
\* digit of a float.
FreqUnit == 4

\* Sampling.rate and FFTConfig.size, scaled down: the rates keep the ratio 2
\* and the sizes are powers of two, so that rate / size is a whole number.
SampleRates == {8, 16}

FFTSizes == {2, 4}

\* FFTConfig.cutoff: 0 < cutoff <= MaxCutoff, in grid steps.  As in the
\* program, the largest cutoff lies above the Nyquist frequency of the
\* lowest rate and below that of the highest.
Cutoffs == 1..(MaxCutoff * FreqUnit)

\* FFTConfig.log_even_components: 0 < components <= MaxComponents.
Components == 1..MaxComponents

\* One unit of energy, in grid steps: divisible by every width rate / size
\* of a bin of the linear spectrum.
EnergyUnit == LcmOf({(r * FreqUnit) \div n : r \in SampleRates, n \in FFTSizes})

\* (|X_k| / size)^2 of one component of the transform.
Energies == {0, EnergyUnit}

\* What a caller passes as fft_config, sampling and wave: the kinds of the
\* three, and the number of dimensions of the wave's array.
SpectrumArgs ==
    { [config |-> "FFTConfig", sampling |-> "Sampling", wave |-> "ndarray", ndim |-> 1],
      [config |-> "FFTConfig", sampling |-> "Sampling", wave |-> "Wave", ndim |-> 1],
      [config |-> "FFTConfig", sampling |-> "Sampling", wave |-> "ndarray", ndim |-> 2],
      [config |-> "FFTConfig", sampling |-> "Sampling", wave |-> "list", ndim |-> 1],
      [config |-> "dict", sampling |-> "Sampling", wave |-> "ndarray", ndim |-> 1],
      [config |-> "FFTConfig", sampling |-> "dict", wave |-> "ndarray", ndim |-> 1] }

\* get_wave_array: the error it raises, or "ok".
GetWaveArray(a) ==
    IF a.wave # "Wave" /\ a.wave # "ndarray" THEN "TypeError"
    ELSE IF a.ndim # 1 THEN "ValueError"
    ELSE "ok"

\* The energies of all the components, the DC term kept.
EnergyWithDC(fft) == fft

\* np.square(np.abs(rfft(wave, n=fft_size)[1:]) / fft_size): fft holds the
\* energy of each of the size/2 + 1 components; the first, DC, is dropped.
Energy(fft) == Tail(fft)

\* rfftfreq(fft_size, d=1.0 / sample_rate): k * rate / size for k = 0..size/2.
RfftFreq(size, rate) == [k \in 1..(size \div 2 + 1) |-> ((k - 1) * rate * FreqUnit) \div size]

\* calculate_spectrum.
Spectrum(a, size, rate, fft) ==
    IF a.config # "FFTConfig" THEN Outcome("TypeError", FALSE, NoHist)
    ELSE IF a.sampling # "Sampling" THEN Outcome("TypeError", FALSE, NoHist)
    ELSE IF GetWaveArray(a) # "ok" THEN Outcome(GetWaveArray(a), FALSE, NoHist)
    ELSE LET energy == Energy(fft)
             bands == RfftFreq(size, rate)
             res == PostInit(bands, energy)
         IN  IF res = "ok" THEN Outcome("ok", FALSE, Hist(bands, energy))
             ELSE Outcome(res, FALSE, NoHist)

RECURSIVE Power(_, _)
Power(b, e) == IF e = 0 THEN 1 ELSE b * Power(b, e - 1)

\* The grid point nearest to the m-th root of t, which lies in lo..hi.
NearestRoot(t, m, lo, hi) ==
    LET x == CHOOSE y \in lo..hi : Power(y, m) <= t /\ t < Power(y + 1, m)
    IN  IF Power(2 * x + 1, m) <= Power(2, m) * t THEN x + 1 ELSE x

\* Log-even bands that start at the first edge of the linear bands instead
\* of the cutoff: evenly spaced from bands[0] to bands[-1].
ToLogEvenBandsFromZero(bands, cutoff, components, d0, d1) ==
    LET size == IF components # 0 THEN components ELSE Len(bands)
        top == bands[Len(bands)]
    IN  [k \in 1..(size + 1) |-> bands[1] + ((k - 1) * (top - bands[1])) \div size]

\* to_log_even_bands: np.exp(np.linspace(np.log(cutoff), np.log(bands[-1]),
\* size + 1)); edge k of size is cutoff^(1 - k/size) * top^(k/size) rounded to
\* the grid.  np.log and np.exp are not correctly rounded, so the two ends
\* come back d0 and d1 steps away from cutoff and bands[-1].
ToLogEvenBands(bands, cutoff, components, d0, d1) ==
    LET size == IF components # 0 THEN components ELSE Len(bands)
        top == bands[Len(bands)]
    IN  [k \in 1..(size + 1) |->
            IF k = 1 THEN cutoff + d0
            ELSE IF k = size + 1 THEN top + d1
            ELSE NearestRoot(Power(cutoff, size - k + 1) * Power(top, k - 1), size,
                             Min2(cutoff, top), Max2(cutoff, top))]

\* The last digits np.exp(np.log(x)) can be off by, x > 0: the result is
\* positive.
LastDigits(x) == {d \in {-1, 0, 1} : x + d > 0}

\* np.exp(np.log(.)) is one function of its argument, and does not decrease:
\* the results at x and y are ordered as x and y are.
Ordered(x, dx, y, dy) ==
    /\ x <= y => x + dx <= y + dy
    /\ x >= y => x + dx >= y + dy

\* calculate_log_spectrum: the linear spectrum, the log-even bands, and the
\* outcome of the rebin (or of what failed before it).
LogSpectrum(a, size, rate, fft, cutoff, components, d0, d1) ==
    IF a.config # "FFTConfig" THEN [linear |-> NoHist, bands |-> <<>>, out |-> Outcome("TypeError", FALSE, NoHist)]
    ELSE IF a.sampling # "Sampling" THEN [linear |-> NoHist, bands |-> <<>>, out |-> Outcome("TypeError", FALSE, NoHist)]
    ELSE LET linear == Spectrum(a, size, rate, fft)
         IN  IF linear.outcome # "ok" THEN [linear |-> NoHist, bands |-> <<>>, out |-> linear]
             ELSE LET bands == ToLogEvenBands(linear.result.edges, cutoff, components, d0, d1)
                  IN  [linear |-> linear.result, bands |-> bands,
                       out |-> Rebin(linear.result, "ndarray", bands)]

NoSp == [op |-> "none", args |-> <<>>, size |-> 0, rate |-> 0, fft |-> <<>>, cutoff |-> 0,
         components |-> 0, linear |-> NoHist, bands |-> <<>>, outcome |-> "none",
         warned |-> FALSE, result |-> NoHist]

\* ---------------------------------------------------------------- actions
Init ==
    /\ h = NoHist
    /\ born = NoHist
    /\ call = NoCall
    /\ first = NoCall
    /\ wide = FALSE
    /\ dtype = "float64"
    /\ heap = NoHeap
    /\ memo = NoMemo
    /\ acc = NoAcc
    /\ ivc = NoIvc
    /\ sp = NoSp

InitRound ==
    /\ h = NoHist
    /\ born = NoHist
    /\ call = NoCall
    /\ first = NoCall
    /\ wide = TRUE
    /\ dtype = "float64"
    /\ heap = NoHeap
    /\ memo = NoMemo
    /\ acc = NoAcc
    /\ ivc = NoIvc
    /\ sp = NoSp

\* Histogram(edges, values): the dataclass stores the two arrays it is given
\* and __post_init__ validates them.
Construct ==
    /\ h = NoHist
    /\ call = NoCall
    /\ \E a \in ConstructArgs(wide) :
          LET e == a[1]
              v == a[2]
              res == PostInit(e, v)
          IN  /\ call' = CallOf("new", "ndarray", e, Hist(e, v),
                                Outcome(res, FALSE, IF res = "ok" THEN Hist(e, v) ELSE NoHist))
              /\ h' = IF res = "ok" THEN Hist(e, v) ELSE NoHist
              /\ born' = h'
    /\ first' = NoCall
    /\ UNCHANGED <<wide, dtype, heap, memo, acc, ivc, sp>>

\* Histogram(edges, counts), counts an integer array (as np.histogram returns).
ConstructCounts ==
    /\ h = NoHist
    /\ call = NoCall
    /\ \E a \in {b \in ConstructArgs(wide) : \A k \in 1..Len(b[2]) : b[2][k] % Unit = 0} :
          LET e == a[1]
              v == a[2]
              res == PostInit(e, v)
          IN  /\ call' = CallOf("new", "ndarray", e, Hist(e, v),
                                Outcome(res, FALSE, IF res = "ok" THEN Hist(e, v) ELSE NoHist))
              /\ h' = IF res = "ok" THEN Hist(e, v) ELSE NoHist
              /\ born' = h'
    /\ first' = NoCall
    /\ dtype' = "int64"
    /\ UNCHANGED <<wide, heap, memo, acc, ivc, sp>>

\* The ways the target of self.rebin can be the receiver's own: its edges
\* array passed as the array, or the receiver passed as the histogram.
OwnChoices(self, form, tgt) ==
    {FALSE} \cup (IF \/ (form = "ndarray" /\ tgt = self.edges)
                    \/ (form = "Histogram" /\ tgt = self)
                 THEN {TRUE} ELSE {})

\* One call self.rebin(target_bins), whatever the receiver.  NumPy leaves
\* np.interp unspecified when xp is not increasing: a call on a receiver whose
\* edges no longer increase is not followed.
DoRebin(self, form, tgt, edges) ==
    /\ IsIncreasing(self.edges)
    /\ LET out == Rebin(self, form, tgt)
       IN  /\ call' = CallOf("rebin", form, edges, self, out)
           /\ \E own \in OwnChoices(self, form, tgt) :
                 heap' = [target |-> edges, own |-> own,
                          shared |-> out.outcome = "ok" /\ EdgesShared(form)]
    /\ UNCHANGED <<h, born, wide, dtype, memo, acc, ivc, sp>>

\* h.rebin(Interval(l, r)), the interval valid or not.
RebinInterval ==
    /\ h # NoHist
    /\ call.op = "new"
    /\ \E p \in (Coords \X Coords) \cup {t \in ExampleTargets : Len(t) = 2} :
          DoRebin(h, "Interval", Interval(p[1], p[2]), p)
    /\ first' = NoCall

\* h.rebin(array)
RebinArray ==
    /\ h # NoHist
    /\ call.op = "new"
    /\ \E t \in Arrays \cup ExampleTargets \cup (IF wide THEN SmallTargets ELSE {}) :
          DoRebin(h, "ndarray", t, t)
    /\ first' = NoCall

\* h.rebin(g), g another histogram (its values play no part).
RebinHistogram ==
    /\ h # NoHist
    /\ call.op = "new"
    /\ \E t \in EdgeArrays :
          DoRebin(h, "Histogram", Hist(t, [k \in 1..(Len(t) - 1) |-> 0]), t)
    /\ first' = NoCall

\* h.rebin(x), x none of the three kinds.
RebinOther ==
    /\ h # NoHist
    /\ call.op = "new"
    /\ DoRebin(h, "str", <<>>, <<>>)
    /\ first' = NoCall

\* h.rebin(t1).rebin(t2): the second call, on the histogram the first returned.
RebinAgain ==
    /\ call.op = "rebin"
    /\ call.outcome = "ok"
    /\ call.form = "ndarray"
    /\ first = NoCall
    /\ first' = call
    /\ \E t \in EdgeArrays \cup ExampleTargets : DoRebin(call.result, "ndarray", t, t)

Next ==
    \/ Construct
    \/ RebinInterval
    \/ RebinArray
    \/ RebinHistogram
    \/ RebinOther
    \/ RebinAgain

Spec == Init /\ [][Next]_vars

\* The dataclass is not frozen and keeps the very arrays it was given: the
\* caller, who still holds them (or h.edges itself), stores into one.  One
\* store per run is followed, made before the first rebin call and before
\* the last accessor call.
WriteEdges ==
    /\ h # NoHist
    /\ h = born
    /\ call.op = "new"
    /\ acc.n < 2
    /\ \E i \in 1..Len(h.edges), x \in Coords : h' = [h EXCEPT !.edges[i] = x]
    /\ UNCHANGED <<born, call, first, wide, dtype, heap, memo, acc, ivc, sp>>

WriteValues ==
    /\ h # NoHist
    /\ h = born
    /\ call.op = "new"
    /\ acc.n < 2
    /\ \E i \in 1..Len(h.values), x \in Vals(wide) : h' = [h EXCEPT !.values[i] = x]
    /\ UNCHANGED <<born, call, first, wide, dtype, heap, memo, acc, ivc, sp>>

NextShared ==
    \/ Next
    \/ WriteEdges
    \/ WriteValues

\* The same operations, with callers that write to the arrays they share
\* with the histogram.
SpecShared == Init /\ [][NextShared]_vars

SpecRound == InitRound /\ [][Next]_vars

\* The caller stores into the edges array of the histogram a first rebin
\* returned; the store reaches whatever else holds that array.  One store per
\* run is followed.
WriteResult ==
    /\ call.op = "rebin"
    /\ call.outcome = "ok"
    /\ first = NoCall
    /\ call.result.edges = call.target
    /\ \E i \in 1..Len(call.result.edges), x \in Coords :
          /\ x # call.result.edges[i]
          /\ call' = [call EXCEPT !.result.edges[i] = x]
          /\ heap' = IF heap.shared THEN [heap EXCEPT !.target[i] = x] ELSE heap
          /\ h' = IF heap.shared /\ heap.own THEN [h EXCEPT !.edges[i] = x] ELSE h
    /\ UNCHANGED <<born, first, wide, dtype, memo, acc, ivc, sp>>

NextStore ==
    \/ Construct
    \/ RebinInterval
    \/ RebinArray
    \/ RebinHistogram
    \/ RebinOther
    \/ WriteResult

\* Single calls of rebin, with callers that store into what it returned.
SpecStore == Init /\ [][NextStore]_vars

\* The indices a caller passes: every bin, and beyond on both sides.
Idx(hh) == (-(NBins(hh) + 1))..NBins(hh)

Indexed == {"width", "density", "interval"}

\* One accessor call on h, before any rebin.
DoGet(op, i) ==
    /\ h # NoHist
    /\ call.op = "new"
    /\ LET r == Access(h, dtype, memo, op, i)
       IN  /\ acc' = [op |-> op, i |-> i, self |-> h, outcome |-> r.got.outcome,
                      value |-> r.got.value, guarded |-> r.got.guarded, n |-> acc.n + 1]
           /\ memo' = r.memo
    /\ UNCHANGED <<h, born, call, first, wide, dtype, heap, ivc, sp>>

\* The first accessor call, on the histogram as it was constructed.
FirstGet == acc.n = 0 /\ h = born

GetRange == FirstGet /\ DoGet("range", 0)

GetWidths == FirstGet /\ DoGet("widths", 0)

GetDensities == FirstGet /\ DoGet("densities", 0)

GetWidth == FirstGet /\ \E i \in Idx(h) : DoGet("width", i)

GetDensity == FirstGet /\ \E i \in Idx(h) : DoGet("density", i)

GetInterval == FirstGet /\ \E i \in Idx(h) : DoGet("interval", i)

\* list(h): the iteration run to its end.
GetIter == FirstGet /\ DoGet("iter", 0)

\* A second accessor call, of one of the cached kinds, after the first.
GetAgain ==
    /\ acc.n = 1
    /\ \E op \in {"range", "widths", "densities", "width", "density"} :
          \E i \in (IF op \in Indexed THEN Idx(h) ELSE {0}) : DoGet(op, i)

NextAccess ==
    \/ Construct
    \/ ConstructCounts
    \/ GetRange
    \/ GetWidths
    \/ GetDensities
    \/ GetWidth
    \/ GetDensity
    \/ GetInterval
    \/ GetIter
    \/ GetAgain

\* The accessors of a histogram nobody writes to.
SpecAccess == Init /\ [][NextAccess]_vars

NextMemo ==
    \/ Construct
    \/ GetRange
    \/ GetWidths
    \/ GetDensities
    \/ GetWidth
    \/ GetDensity
    \/ GetInterval
    \/ GetIter
    \/ GetAgain
    \/ WriteEdges
    \/ WriteValues

\* The accessors, with callers that write to the arrays they share with the
\* histogram.
SpecMemo == Init /\ [][NextMemo]_vars

\* The intervals a caller forms: valid, degenerate and inverted ones over the
\* coordinates, and those of the documentation's examples.
Intervals ==
    {Interval(p[1], p[2]) : p \in Coords \X Coords}
        \cup {Interval(3, 7), Interval(4, 6), Interval(6, 15)}
        \cup {Interval(0, 10), Interval(0, 5)}

\* a.relative_measure(b)
CallRelativeMeasure ==
    /\ ivc = NoIvc
    /\ \E a \in Intervals, b \in Intervals :
          ivc' = IvcOf("relative_measure", a, b, RelativeMeasure(a, b))
    /\ UNCHANGED <<h, born, call, first, wide, dtype, heap, memo, acc, sp>>

\* a.intersection(b)
CallIntersection ==
    /\ ivc = NoIvc
    /\ \E a \in Intervals, b \in Intervals :
          ivc' = IvcOf("intersection", a, b, Intersection(a, b))
    /\ UNCHANGED <<h, born, call, first, wide, dtype, heap, memo, acc, sp>>

\* a.contains(b)
CallContains ==
    /\ ivc = NoIvc
    /\ \E a \in Intervals, b \in Intervals :
          ivc' = IvcOf("contains", a, b, Contains(a, b))
    /\ UNCHANGED <<h, born, call, first, wide, dtype, heap, memo, acc, sp>>

\* bool(a), a.length and a.midpoint, of an interval of any kind.
CallBool ==
    /\ ivc = NoIvc
    /\ \E a \in Intervals : ivc' = IvcOf("bool", a, a, IsValid(a))
    /\ UNCHANGED <<h, born, call, first, wide, dtype, heap, memo, acc, sp>>

CallLength ==
    /\ ivc = NoIvc
    /\ \E a \in Intervals : ivc' = IvcOf("length", a, a, Length(a))
    /\ UNCHANGED <<h, born, call, first, wide, dtype, heap, memo, acc, sp>>

CallMidpoint ==
    /\ ivc = NoIvc
    /\ \E a \in Intervals : ivc' = IvcOf("midpoint", a, a, Midpoint(a))
    /\ UNCHANGED <<h, born, call, first, wide, dtype, heap, memo, acc, sp>>

\* Interval.from_edges(edges)
CallFromEdges ==
    /\ ivc = NoIvc
    /\ \E e \in Arrays \cup ExampleEdges :
          ivc' = [op |-> "from_edges", a |-> Interval(0, 0), b |-> Interval(0, 0), edges |-> e,
                  outcome |-> FromEdges(e).outcome, value |-> FromEdges(e).value]
    /\ UNCHANGED <<h, born, call, first, wide, dtype, heap, memo, acc, sp>>

NextInterval ==
    \/ CallRelativeMeasure
    \/ CallIntersection
    \/ CallContains
    \/ CallBool
    \/ CallLength
    \/ CallMidpoint
    \/ CallFromEdges

\* The operations of Interval, each on every pair of intervals.
SpecInterval == Init /\ [][NextInterval]_vars

\* calculate_spectrum(wave, fft_config, sampling)
CalculateSpectrum ==
    /\ sp = NoSp
    /\ \E a \in SpectrumArgs, size \in FFTSizes, rate \in SampleRates :
          \E fft \in [1..(size \div 2 + 1) -> Energies] :
             LET out == Spectrum(a, size, rate, fft)
             IN  sp' = [op |-> "calculate_spectrum", args |-> a, size |-> size, rate |-> rate,
                        fft |-> fft, cutoff |-> 0, components |-> 0, linear |-> out.result,
                        bands |-> <<>>, outcome |-> out.outcome, warned |-> out.warned,
                        result |-> out.result]
    /\ UNCHANGED <<h, born, call, first, wide, dtype, heap, memo, acc, ivc>>

\* calculate_log_spectrum(wave, fft_config, sampling), the configuration one
\* that validation accepts.
CalculateLogSpectrum ==
    /\ sp = NoSp
    /\ \E a \in SpectrumArgs, size \in FFTSizes, rate \in SampleRates,
          cutoff \in Cutoffs, components \in Components :
          \E fft \in [1..(size \div 2 + 1) -> Energies],
             d0 \in LastDigits(cutoff), d1 \in LastDigits((rate * FreqUnit) \div 2) :
             /\ Ordered(cutoff, d0, (rate * FreqUnit) \div 2, d1)
             /\ LET r == LogSpectrum(a, size, rate, fft, cutoff, components, d0, d1)
                IN  sp' = [op |-> "calculate_log_spectrum", args |-> a, size |-> size,
                           rate |-> rate, fft |-> fft, cutoff |-> cutoff,
                           components |-> components, linear |-> r.linear,
                           bands |-> r.bands, outcome |-> r.out.outcome,
                           warned |-> r.out.warned, result |-> r.out.result]
    /\ UNCHANGED <<h, born, call, first, wide, dtype, heap, memo, acc, ivc>>

NextSpectrum ==
    \/ CalculateSpectrum
    \/ CalculateLogSpectrum

\* The two spectrum functions, each called once.
SpecSpectrum == Init /\ [][NextSpectrum]_vars

\* ----------------------------------------------------- the claims' vocabulary
\* Exact sums and masses, in plain integer arithmetic.
RECURSIVE PlainSumTo(_, _)
PlainSumTo(s, k) == IF k = 0 THEN 0 ELSE PlainSumTo(s, k - 1) + s[k]

PlainSum(s) == PlainSumTo(s, Len(s))

First(s) == s[1]

Last(s) == s[Len(s)]

\* t's overall range contains h's range.
Covers(t, hh) == First(t) <= First(hh.edges) /\ Last(t) >= Last(hh.edges)

StrictlyIncreasing(s) == \A i, j \in 1..Len(s) : i < j => s[i] < s[j]

Elems(s) == {s[k] : k \in 1..Len(s)}

RebinCall == call.op = "rebin"

RebinOk == call.op = "rebin" /\ call.outcome = "ok"

\* A target the documentation calls valid: of one of the three kinds, two or
\* more edges, strictly increasing.
ValidTarget == call.form \in {"Interval", "ndarray", "Histogram"}
               /\ Len(call.target) >= 2 /\ StrictlyIncreasing(call.target)

\* C1: when the target's range contains the receiver's range, the rebinned
\* values sum to what the receiver's values sum to.
C1_MassPreserved ==
    (RebinOk /\ Covers(call.target, call.self))
        => PlainSum(call.result.values) = PlainSum(call.self.values)

\* A rebin, onto a range reaching left of the receiver's, that splits a bin
\* holding mass.
C1_Witness ==
    /\ RebinOk
    /\ Covers(call.target, call.self)
    /\ First(call.target) < First(call.self.edges)
    /\ \E i \in 1..Len(call.self.values), k \in 1..Len(call.target) :
          /\ call.self.values[i] > 0
          /\ call.self.edges[i] < call.target[k]
          /\ call.target[k] < call.self.edges[i + 1]

\* C2 as first stated: for t1 and t2 both containing h's range,
\* h.rebin(t1).rebin(t2) has the values of h.rebin(t2).
C2_DoubleRebinSame ==
    (/\ RebinOk
     /\ first # NoCall
     /\ Covers(first.target, first.self)
     /\ Covers(call.target, first.self))
        => call.result.values = RebinValues(first.self, call.target)

\* C2 amended: for t1 and t2 both containing h's range, h.rebin(t1).rebin(t2)
\* has the values of h.rebin(t2) provided every edge of t2 is an edge of t1 or
\* every edge of h is an edge of t1.
C2_DoubleRebinRefined ==
    (/\ RebinOk
     /\ first # NoCall
     /\ Covers(first.target, first.self)
     /\ Covers(call.target, first.self)
     /\ \/ Elems(call.target) \subseteq Elems(first.target)
        \/ Elems(first.self.edges) \subseteq Elems(first.target))
        => call.result.values = RebinValues(first.self, call.target)

\* A double rebin through a t1 that keeps every edge of h, onto a t2 that
\* splits a bin of t1 holding mass.
C2_Witness ==
    /\ RebinOk
    /\ first # NoCall
    /\ Covers(first.target, first.self)
    /\ Covers(call.target, first.self)
    /\ Elems(first.self.edges) \subseteq Elems(first.target)
    /\ ~(Elems(call.target) \subseteq Elems(first.target))
    /\ PlainSum(call.result.values) > 0
    /\ Len(call.target) >= 3

\* No partial sum of v is rounded.
ExactSums(v) == \A k \in 0..Len(v) : SumTo(v, k) = PlainSumTo(v, k)

\* h.rebin(h.edges) or h.rebin(h).
IdentityRebin == /\ RebinCall
                 /\ call.form \in {"ndarray", "Histogram"}
                 /\ call.target = call.self.edges

RECURSIVE WidthProd(_, _)
WidthProd(e, k) == IF k = 0 THEN 1 ELSE WidthProd(e, k - 1) * (e[k + 1] - e[k])

RECURSIVE MassLeftTo(_, _, _)
MassLeftTo(hh, x, k) ==
    IF k = 0 THEN 0
    ELSE LET w == hh.edges[k + 1] - hh.edges[k]
             part == Max2(0, Min2(x, hh.edges[k + 1]) - hh.edges[k])
         IN  MassLeftTo(hh, x, k - 1)
                 + hh.values[k] * part * (WidthProd(hh.edges, Len(hh.values)) \div w)

MassLeft(hh, x) == MassLeftTo(hh, x, Len(hh.values))

\* C4: each rebinned value is F(t[j+1]) - F(t[j]), F the piecewise-linear
\* cumulative mass of the receiver, 0 left of its range and the total mass
\* right of it; a target bin wholly outside the receiver's range gets 0, and
\* Histogram([0,10], [5]) rebinned to [5,20] gives [2.5].
C4_CumulativeInterpolation ==
    RebinOk =>
        /\ \A j \in 1..(Len(call.target) - 1) :
              /\ call.result.values[j] * WidthProd(call.self.edges, Len(call.self.values))
                    = MassLeft(call.self, call.target[j + 1]) - MassLeft(call.self, call.target[j])
              /\ (\/ call.target[j + 1] <= First(call.self.edges)
                  \/ call.target[j] >= Last(call.self.edges)) => call.result.values[j] = 0
        /\ (call.self = Hist(<<0, 10>>, <<5 * Unit>>) /\ call.target = <<5, 20>>)
              => call.result.values = <<(5 * Unit) \div 2>>

\* Histogram([0,10], [5]) rebinned to [5,20].
C4_Witness ==
    /\ RebinOk
    /\ call.form = "ndarray"
    /\ call.self = Hist(<<0, 10>>, <<5 * Unit>>)
    /\ call.target = <<5, 20>>
    /\ call.result.values = <<(5 * Unit) \div 2>>

\* The sum of the values of the bins of hh lying within [a, b].
RECURSIVE CoveredTo(_, _, _, _)
CoveredTo(hh, a, b, k) ==
    IF k = 0 THEN 0
    ELSE CoveredTo(hh, a, b, k - 1)
             + (IF a <= hh.edges[k] /\ hh.edges[k + 1] <= b THEN hh.values[k] ELSE 0)

Covered(hh, a, b) == CoveredTo(hh, a, b, Len(hh.values))

\* The documentation's histogram, edges [0,2,5,10] and values [1,2,1.5].
Example == Hist(<<0, 2, 5, 10>>, <<Unit, 2 * Unit, (3 * Unit) \div 2>>)

\* C5: when every target edge is an edge of the receiver and the target spans
\* its range, each target bin holds the sum of the bins it covers; the example
\* histogram gives [4.5] on Interval(0,10) and [3.0, 1.5] on [0,5,10].
C5_MergeAlongEdges ==
    /\ (/\ RebinOk
        /\ Elems(call.target) \subseteq Elems(call.self.edges)
        /\ First(call.target) = First(call.self.edges)
        /\ Last(call.target) = Last(call.self.edges))
          => \A j \in 1..(Len(call.target) - 1) :
                call.result.values[j] = Covered(call.self, call.target[j], call.target[j + 1])
    /\ (RebinCall /\ call.self = Example /\ call.form = "Interval" /\ call.target = <<0, 10>>)
          => call.outcome = "ok" /\ call.result.values = <<(9 * Unit) \div 2>>
    /\ (RebinCall /\ call.self = Example /\ call.form = "ndarray" /\ call.target = <<0, 5, 10>>)
          => call.outcome = "ok" /\ call.result.values = <<3 * Unit, (3 * Unit) \div 2>>

\* The example histogram rebinned to [0,5,10].
C5_Witness ==
    /\ RebinOk
    /\ call.self = Example
    /\ call.form = "ndarray"
    /\ call.target = <<0, 5, 10>>
    /\ call.result.values = <<3 * Unit, (3 * Unit) \div 2>>

\* The example histogram rebinned to the single Interval(0,10).
C5_WitnessInterval ==
    /\ RebinOk
    /\ call.self = Example
    /\ call.form = "Interval"
    /\ call.target = <<0, 10>>
    /\ call.result.values = <<(9 * Unit) \div 2>>

\* C6: a rebin call with a valid target emits the range warning exactly when
\* the target's range does not contain the receiver's (t[0] > edges[0] or
\* t[-1] < edges[-1]), and warned or not it returns the rebinned histogram.
C6_WarningExact ==
    (RebinCall /\ ValidTarget) =>
        /\ call.warned <=> (\/ First(call.target) > First(call.self.edges)
                            \/ Last(call.target) < Last(call.self.edges))
        /\ call.outcome = "ok"
        /\ call.result.edges = call.target
        /\ Len(call.result.values) = Len(call.target) - 1

\* A rebin that warned, for a target starting inside the receiver's range,
\* and returned a histogram holding mass.
C6_Witness ==
    /\ RebinOk
    /\ call.warned
    /\ First(call.target) > First(call.self.edges)
    /\ Last(call.target) >= Last(call.self.edges)
    /\ PlainSum(call.result.values) > 0

\* C7: constructing a Histogram from arrays succeeds exactly when
\* len(edges) = len(values) + 1, len(edges) >= 2 and the edges are strictly
\* increasing; otherwise it fails with a validation error and no Histogram
\* exists; ([0,1,2], [1,2,3]) and ([1,0], [5]) fail.
C7_ConstructorValidation ==
    call.op = "new" =>
        LET e == call.self.edges
            v == call.self.values
            good == Len(e) = Len(v) + 1 /\ Len(e) >= 2 /\ StrictlyIncreasing(e)
        IN  /\ call.outcome = "ok" <=> good
            /\ good => h = Hist(e, v)
            /\ ~good => call.outcome = "ValueError" /\ h = NoHist /\ call.result = NoHist
            /\ (e = <<0, 1, 2>> /\ Len(v) = 3) => call.outcome = "ValueError"
            /\ (e = <<1, 0>> /\ Len(v) = 1) => call.outcome = "ValueError"

\* The construction from edges [1,0] and values [5] failed: the lengths fit,
\* the edges descend.
C7_Witness ==
    /\ call.op = "new"
    /\ call.self = Hist(<<1, 0>>, <<5 * Unit>>)
    /\ call.outcome = "ValueError"
    /\ h = NoHist

\* C8: a target whose edges are not strictly increasing, in any of the three
\* forms, makes rebin fail with a validation error before the overlap check:
\* a rebin call that failed with a validation error emitted no range warning.
C8_ValidationBeforeWarning ==
    /\ (/\ RebinCall
        /\ call.form \in {"Interval", "ndarray", "Histogram"}
        /\ Len(call.target) >= 2
        /\ ~StrictlyIncreasing(call.target)) => call.outcome = "ValueError"
    /\ (RebinCall /\ call.outcome = "ValueError") => ~call.warned

\* C9: rebin with an edge array of fewer than 2 edges fails with a validation
\* error and returns no Histogram.
C9_ShortTargetValueError ==
    (RebinCall /\ call.form = "ndarray" /\ Len(call.target) < 2)
        => call.outcome = "ValueError" /\ call.result = NoHist

\* C10: a Histogram, once constructed, always has the edges and values it was
\* constructed with, and so keeps the three construction invariants.
C10_Immutable ==
    /\ h = born
    /\ h # NoHist => PostInit(h.edges, h.values) = "ok"

\* C11: rebin has no side effect on its inputs: after h.rebin(target), in any
\* form, and after any later store into the returned histogram's edges, h has
\* the edges and values it had, the target has the edges it had, and the
\* returned histogram's edges array is not the target's array (nor h's).
C11_NoSideEffect ==
    RebinCall =>
        /\ h = born
        /\ h = call.self
        /\ heap.target = call.target
        /\ ~heap.shared

\* h.rebin(h.edges) returned, and the caller then stored into the returned
\* histogram's edges: h still has the edges passed.
C11_Witness ==
    /\ RebinOk
    /\ call.form = "ndarray"
    /\ heap.own
    /\ call.result.edges # call.target
    /\ h.edges = call.target

\* C12: whenever rebin returns, the result's edges are exactly the target
\* edges, it has len(target edges) - 1 values, and it satisfies the three
\* construction invariants.
C12_ResultShape ==
    RebinOk =>
        /\ call.result.edges = call.target
        /\ Len(call.result.values) = Len(call.target) - 1
        /\ Len(call.result.edges) = Len(call.result.values) + 1
        /\ Len(call.result.edges) >= 2
        /\ StrictlyIncreasing(call.result.edges)

\* A rebin onto another histogram of two or more bins returned, the target
\* reaching beyond the receiver's range on the right.
C12_Witness ==
    /\ RebinOk
    /\ call.form = "Histogram"
    /\ Len(call.target) >= 3
    /\ Last(call.target) > Last(call.self.edges)
    /\ Len(call.result.values) = Len(call.target) - 1

\* C13: the three target forms are equivalent: a rebin with an Interval or a
\* Histogram target ends as the rebin of the same receiver with the array of
\* the same edges does: same error or none, same warning or none, same result.
C13_FormsEquivalent ==
    (RebinCall /\ call.form \in {"Interval", "Histogram"}) =>
        LET r == Rebin(call.self, "ndarray", call.target)
        IN  /\ call.outcome = r.outcome
            /\ call.warned = r.warned
            /\ call.result = r.result

\* Whether i is the index of a bin of hh.
InRange(hh, i) == 0 <= i /\ i < Len(hh.values)

\* C14: width(i) and density(i) return a value only for 0 <= i < n, and fail
\* with an index error for every other i, negative i included.
C14_IndexChecked ==
    acc.op \in {"width", "density"} =>
        IF InRange(acc.self, acc.i) THEN acc.outcome = "ok" /\ Len(acc.value) = 1
        ELSE acc.outcome = "IndexError"

\* C15: interval(i) returns Interval(edges[i], edges[i+1]) when 0 <= i < n and
\* fails with an index error for every other i; iterating the histogram
\* yields exactly the n pairs (interval(i), values[i]), i increasing.
C15_IntervalAndIteration ==
    /\ acc.op = "interval" =>
          IF InRange(acc.self, acc.i)
          THEN /\ acc.outcome = "ok"
               /\ acc.value = <<acc.self.edges[acc.i + 1], acc.self.edges[acc.i + 2]>>
          ELSE acc.outcome = "IndexError" /\ acc.value = <<>>
    /\ acc.op = "iter" =>
          /\ acc.outcome = "ok"
          /\ Len(acc.value) = Len(acc.self.values)
          /\ \A k \in 1..Len(acc.value) :
                acc.value[k] = <<acc.self.edges[k], acc.self.edges[k + 1], acc.self.values[k]>>

\* interval(-1) on a histogram of two or more bins failed with an index error.
C15_Witness ==
    /\ acc.op = "interval"
    /\ acc.i = -1
    /\ Len(acc.self.values) >= 2
    /\ acc.outcome = "IndexError"

\* A histogram of three bins was iterated.
C15_WitnessIteration ==
    /\ acc.op = "iter"
    /\ Len(acc.self.values) = 3
    /\ Len(acc.value) = 3

\* C16: every call of width(i), density(i), widths, densities and range
\* returns what the computation without caches returns from the receiver's
\* edges and values at the time of the call.
C16_MemoUnobservable ==
    acc.op \in {"width", "density", "widths", "densities", "range"} =>
        LET plain == Access(acc.self, dtype, NoMemo, acc.op, acc.i).got
        IN  acc.outcome = plain.outcome /\ acc.value = plain.value

\* C17: for every bin i, width(i) = edges[i+1] - edges[i] > 0 and density(i) =
\* values[i] / width(i), so that density(i) * width(i) is values[i] and the
\* zero-width branch is not taken; widths[i] = width(i) and densities[i] =
\* density(i) for every i.
C17_DensityDefinition ==
    LET e == acc.self.edges
        v == acc.self.values
    IN  /\ (acc.op = "width" /\ InRange(acc.self, acc.i)) =>
              /\ acc.outcome = "ok"
              /\ acc.value[1] = e[acc.i + 2] - e[acc.i + 1]
              /\ acc.value[1] > 0
        /\ (acc.op = "density" /\ InRange(acc.self, acc.i)) =>
              /\ acc.outcome = "ok"
              /\ acc.value[1] * (e[acc.i + 2] - e[acc.i + 1]) = v[acc.i + 1]
              /\ ~acc.guarded
        /\ acc.op = "widths" =>
              /\ Len(acc.value) = Len(v)
              /\ \A k \in 1..Len(v) : acc.value[k] = e[k + 1] - e[k]
        /\ acc.op = "densities" =>
              /\ Len(acc.value) = Len(v)
              /\ \A k \in 1..Len(v) : acc.value[k] = DensityOf(acc.self, k - 1).value[1]

\* C18: a target that is not an Interval, an array or a Histogram makes rebin
\* fail with a type error, no warning emitted and no Histogram returned.
C18_UnsupportedTarget ==
    (RebinCall /\ call.form \notin {"Interval", "ndarray", "Histogram"}) =>
        /\ call.outcome = "TypeError"
        /\ ~call.warned
        /\ call.result = NoHist

\* h.rebin("...") on a constructed histogram failed with a type error.
C18_Witness ==
    /\ RebinCall
    /\ call.form = "str"
    /\ call.self = h
    /\ call.outcome = "TypeError"

\* C19: a.relative_measure(b) is a.intersection(b).length / a.length when a is
\* valid and 0 when it is not; Interval(3,7).relative_measure(Interval(4,6)) is
\* 0.5 and Interval(3,7).relative_measure(Interval(6,15)) is 0.25.
C19_RelativeMeasure ==
    ivc.op = "relative_measure" =>
        /\ ivc.a.left < ivc.a.right
              => ivc.value * Length(ivc.a) = Length(Intersection(ivc.a, ivc.b)) * Unit
        /\ ~(ivc.a.left < ivc.a.right) => ivc.value = 0
        /\ (ivc.a = Interval(3, 7) /\ ivc.b = Interval(4, 6)) => 2 * ivc.value = Unit
        /\ (ivc.a = Interval(3, 7) /\ ivc.b = Interval(6, 15)) => 4 * ivc.value = Unit

\* Interval(3,7).relative_measure(Interval(6,15)) returned 0.25.
C19_Witness ==
    /\ ivc.op = "relative_measure"
    /\ ivc.a = Interval(3, 7)
    /\ ivc.b = Interval(6, 15)
    /\ 4 * ivc.value = Unit

\* a.relative_measure(b) returned 0 for a degenerate a inside a valid b.
C19_WitnessInvalid ==
    /\ ivc.op = "relative_measure"
    /\ ivc.a.left = ivc.a.right
    /\ ivc.b.left < ivc.a.left
    /\ ivc.a.right < ivc.b.right
    /\ ivc.value = 0

\* C20: for all intervals a and b, valid, degenerate or inverted, overlapping
\* or disjoint, a.relative_measure(b) lies in [0, 1].
C20_Fraction ==
    ivc.op = "relative_measure" => 0 <= ivc.value /\ ivc.value <= Unit

\* a.relative_measure(b) returned 0 for valid a and b that are disjoint.
C20_Witness ==
    /\ ivc.op = "relative_measure"
    /\ ivc.a.left < ivc.a.right
    /\ ivc.b.left < ivc.b.right
    /\ ivc.a.right < ivc.b.left
    /\ ivc.value = 0

\* a.relative_measure(b) returned 1 for a valid a inside b.
C20_WitnessWhole ==
    /\ ivc.op = "relative_measure"
    /\ ivc.a.left < ivc.a.right
    /\ ivc.b.left < ivc.a.left
    /\ ivc.a.right < ivc.b.right
    /\ ivc.value = Unit

\* C21: a.intersection(b) is Interval(max(a.left, b.left), min(a.right,
\* b.right)) and does not raise; when a and b do not overlap the result is not
\* valid and its length is 0, not negative.
C21_Intersection ==
    ivc.op = "intersection" =>
        /\ ivc.outcome = "ok"
        /\ ivc.value.left = (IF ivc.a.left >= ivc.b.left THEN ivc.a.left ELSE ivc.b.left)
        /\ ivc.value.right = (IF ivc.a.right <= ivc.b.right THEN ivc.a.right ELSE ivc.b.right)
        /\ (ivc.a.right < ivc.b.left \/ ivc.b.right < ivc.a.left)
              => ~IsValid(ivc.value) /\ Length(ivc.value) = 0

\* The intersection of two valid intervals that do not overlap: inverted.
C21_Witness ==
    /\ ivc.op = "intersection"
    /\ ivc.a.left < ivc.a.right
    /\ ivc.a.right < ivc.b.left
    /\ ivc.b.left < ivc.b.right
    /\ ivc.value = Interval(ivc.b.left, ivc.a.right)

\* C22: an Interval is truthy iff left < right; a valid one has length
\* right - left > 0 and midpoint (left + right) / 2; one with left >= right is
\* falsy, has length exactly 0 and midpoint None; length is never negative.
C22_Validity ==
    LET l == ivc.a.left
        r == ivc.a.right
    IN  /\ ivc.op = "bool" => (ivc.value <=> l < r)
        /\ ivc.op = "length" =>
              /\ l < r => ivc.value = r - l /\ ivc.value > 0
              /\ l >= r => ivc.value = 0
              /\ ivc.value >= 0
        /\ ivc.op = "midpoint" =>
              /\ l < r => Len(ivc.value) = 1 /\ 2 * ivc.value[1] = (l + r) * Unit
              /\ l >= r => ivc.value = <<>>

\* The midpoint of an inverted interval: None.
C22_Witness ==
    /\ ivc.op = "midpoint"
    /\ ivc.a.left > ivc.a.right
    /\ ivc.value = <<>>

\* The truth value of a degenerate interval: false.
C22_WitnessDegenerate ==
    /\ ivc.op = "bool"
    /\ ivc.a.left = ivc.a.right
    /\ ivc.value = FALSE

\* C23: a.contains(b) is true iff a.left <= b.left and a.right >= b.right,
\* that is iff a.intersection(b) = b; Interval(0,10).contains(Interval(3,7)) is
\* true and Interval(0,5).contains(Interval(3,7)) is false.
C23_Contains ==
    ivc.op = "contains" =>
        /\ ivc.value <=> (ivc.a.left <= ivc.b.left /\ ivc.a.right >= ivc.b.right)
        /\ ivc.value <=> (Intersection(ivc.a, ivc.b) = ivc.b)
        /\ (ivc.a = Interval(0, 10) /\ ivc.b = Interval(3, 7)) => ivc.value = TRUE
        /\ (ivc.a = Interval(0, 5) /\ ivc.b = Interval(3, 7)) => ivc.value = FALSE

\* Interval(0,5).contains(Interval(3,7)) returned False.
C23_Witness ==
    /\ ivc.op = "contains"
    /\ ivc.a = Interval(0, 5)
    /\ ivc.b = Interval(3, 7)
    /\ ivc.value = FALSE

\* An interval contains an interval sharing its left end: True.
C23_WitnessShared ==
    /\ ivc.op = "contains"
    /\ ivc.a.left = ivc.b.left
    /\ ivc.b.right < ivc.a.right
    /\ ivc.b.left < ivc.b.right
    /\ ivc.value = TRUE

\* C24: from_edges of n >= 2 strictly increasing edges returns the n - 1
\* intervals Interval(edges[k], edges[k+1]) in order, each valid, each ending
\* where the next begins, as Histogram.interval(k) on the same edges; of fewer
\* than 2 edges, or of edges not strictly increasing, it fails with a
\* validation error.
C24_FromEdges ==
    ivc.op = "from_edges" =>
        LET e == ivc.edges
            n == Len(e)
        IN  IF n >= 2 /\ StrictlyIncreasing(e)
            THEN /\ ivc.outcome = "ok"
                 /\ Len(ivc.value) = n - 1
                 /\ \A k \in 1..(n - 1) :
                       /\ ivc.value[k] = Interval(e[k], e[k + 1])
                       /\ ivc.value[k].left < ivc.value[k].right
                       /\ k < n - 1 => ivc.value[k].right = ivc.value[k + 1].left
                       /\ LET bin == IntervalAt(Hist(e, [j \in 1..(n - 1) |-> 0]), k - 1)
                          IN  bin.outcome = "ok"
                              /\ bin.value = <<ivc.value[k].left, ivc.value[k].right>>
            ELSE ivc.outcome = "ValueError" /\ ivc.value = <<>>

\* from_edges([0, 2, 5, 10]) returned three intervals.
C24_Witness ==
    /\ ivc.op = "from_edges"
    /\ ivc.edges = <<0, 2, 5, 10>>
    /\ ivc.outcome = "ok"
    /\ Len(ivc.value) = 3

\* from_edges of a single edge failed.
C24_WitnessShort ==
    /\ ivc.op = "from_edges"
    /\ Len(ivc.edges) = 1
    /\ ivc.outcome = "ValueError"

\* The mass the bins of hh give to [a, b], each in proportion to the part of
\* it that [a, b] covers; scaled by Unit, as relative_measure is.
RECURSIVE RedistributedTo(_, _, _, _)
RedistributedTo(hh, a, b, k) ==
    IF k = 0 THEN 0
    ELSE RedistributedTo(hh, a, b, k - 1)
             + hh.values[k]
                 * RelativeMeasure(Interval(hh.edges[k], hh.edges[k + 1]), Interval(a, b))

Redistributed(hh, a, b) == RedistributedTo(hh, a, b, Len(hh.values))

\* C27: each value of a rebinned histogram is the sum over the receiver's
\* bins i of values[i] * interval(i).relative_measure(target bin).
C27_OverlapWeighted ==
    RebinOk =>
        \A j \in 1..(Len(call.target) - 1) :
            call.result.values[j] * Unit
                = Redistributed(call.self, call.target[j], call.target[j + 1])

\* A rebin onto several bins, one of which takes a part of each of two
\* bins holding mass.
C27_Witness ==
    /\ RebinOk
    /\ Len(call.target) >= 3
    /\ \E j \in 1..(Len(call.target) - 1), i \in 1..(Len(call.self.values) - 1) :
          /\ call.self.values[i] > 0
          /\ call.self.values[i + 1] > 0
          /\ call.self.edges[i] < call.target[j]
          /\ call.target[j] < call.self.edges[i + 1]
          /\ call.self.edges[i + 1] < call.target[j + 1]
          /\ call.target[j + 1] < call.self.edges[i + 2]

\* C28: when t1 contains h's range and every edge of t2 is an edge of t1,
\* h.rebin(t1).rebin(t2) has the values of h.rebin(t2).
C28_ThroughRefinement ==
    (/\ RebinOk
     /\ first # NoCall
     /\ Covers(first.target, first.self)
     /\ Elems(call.target) \subseteq Elems(first.target))
        => call.result.values = RebinValues(first.self, call.target)

\* A double rebin through a t1 that splits a bin of h holding mass, onto a t2
\* of fewer edges, all of them edges of t1, that does not span h's range.
C28_Witness ==
    /\ RebinOk
    /\ first # NoCall
    /\ Covers(first.target, first.self)
    /\ Elems(call.target) \subseteq Elems(first.target)
    /\ Len(call.target) < Len(first.target)
    /\ ~Covers(call.target, first.self)
    /\ ~(Elems(first.target) \subseteq Elems(first.self.edges))
    /\ PlainSum(call.result.values) > 0

\* C29: if every value of the receiver is >= 0, every value of the rebinned
\* histogram is >= 0 and at most the sum of the receiver's values.
C29_NonNegative ==
    (RebinOk /\ \A i \in 1..Len(call.self.values) : call.self.values[i] >= 0)
        => \A j \in 1..Len(call.result.values) :
              /\ call.result.values[j] >= 0
              /\ call.result.values[j] <= Sum(call.self.values)

\* A rebin of a histogram holding mass onto a target with a bin wholly left
\* of its range and a bin that cuts into it.
C29_Witness ==
    /\ RebinOk
    /\ \A i \in 1..Len(call.self.values) : call.self.values[i] >= 0
    /\ PlainSum(call.self.values) > 0
    /\ Len(call.target) >= 3
    /\ call.target[2] <= First(call.self.edges)
    /\ \E j \in 1..Len(call.result.values) :
          0 < call.result.values[j] /\ call.result.values[j] < PlainSum(call.self.values)

\* A call with arguments of the right kinds: an FFTConfig, a Sampling, and a
\* one-dimensional array or a Wave.
SpectrumCall(op) ==
    /\ sp.op = op
    /\ sp.args.config = "FFTConfig"
    /\ sp.args.sampling = "Sampling"
    /\ GetWaveArray(sp.args) = "ok"

\* The Nyquist frequency of the call, rate / 2, in grid steps.
Nyquist == (sp.rate * FreqUnit) \div 2

\* C25: for every configuration validation accepts and every allowed rate,
\* to_log_even_bands returns log_even_components + 1 strictly increasing
\* edges running from the cutoff to the Nyquist frequency (each end to the
\* last digit), and calculate_log_spectrum returns a histogram of
\* log_even_components bins and does not raise.
C25_LogSpectrumSucceeds ==
    SpectrumCall("calculate_log_spectrum") =>
        /\ Len(sp.bands) = sp.components + 1
        /\ IsIncreasing(sp.bands)
        /\ Abs(First(sp.bands) - sp.cutoff) <= 1
        /\ Abs(Last(sp.bands) - Nyquist) <= 1
        /\ sp.outcome = "ok"
        /\ NBins(sp.result) = sp.components

\* C26: calculate_spectrum on a one-dimensional wave returns a histogram of
\* size/2 + 1 edges k * rate / size, from 0 to the Nyquist frequency, and of
\* size/2 values, the energy of component k >= 1 in bin
\* [(k-1) rate / size, k rate / size] and the DC term dropped; it never fails.
C26_LinearSpectrumShape ==
    SpectrumCall("calculate_spectrum") =>
        /\ sp.outcome = "ok"
        /\ Len(sp.result.edges) = sp.size \div 2 + 1
        /\ Len(sp.result.values) = sp.size \div 2
        /\ First(sp.result.edges) = 0
        /\ Last(sp.result.edges) = Nyquist
        /\ \A k \in 0..(sp.size \div 2) : sp.result.edges[k + 1] * sp.size = k * sp.rate * FreqUnit
        /\ \A k \in 1..(sp.size \div 2) :
              /\ sp.result.values[k] = sp.fft[k + 1]
              /\ sp.result.edges[k] * sp.size = (k - 1) * sp.rate * FreqUnit
              /\ sp.result.edges[k + 1] * sp.size = k * sp.rate * FreqUnit

\* A linear spectrum of two bins whose DC term held energy and whose two
\* other components differ.
C26_Witness ==
    /\ SpectrumCall("calculate_spectrum")
    /\ sp.outcome = "ok"
    /\ sp.size = 4
    /\ sp.fft[1] > 0
    /\ sp.fft[2] = 0
    /\ sp.fft[3] > 0
    /\ sp.result.values = <<0, EnergyUnit>>

\* C30: every successful call of calculate_log_spectrum rebins the linear
\* spectrum, whose first edge is 0, onto a target that starts at the cutoff
\* (to the last digit), above 0, and so does not contain the source range:
\* the range warning is emitted, and the result holds the source's mass
\* within the target's range, less than the whole whenever the source holds
\* mass below it.
C30_LogSpectrumWarns ==
    (sp.op = "calculate_log_spectrum" /\ sp.outcome = "ok") =>
        /\ First(sp.linear.edges) = 0
        /\ First(sp.bands) > 0
        /\ Abs(First(sp.bands) - sp.cutoff) <= 1
        /\ Abs(Last(sp.bands) - Nyquist) <= 1
        /\ ~Contains(Interval(First(sp.bands), Last(sp.bands)), Range(sp.linear))
        /\ sp.warned
        /\ PlainSum(sp.result.values) * WidthProd(sp.linear.edges, Len(sp.linear.values))
              = MassLeft(sp.linear, Last(sp.bands)) - MassLeft(sp.linear, First(sp.bands))
        /\ MassLeft(sp.linear, First(sp.bands)) > 0
              => PlainSum(sp.result.values) < PlainSum(sp.linear.values)

\* A successful call on a spectrum with energy in its first bin: the warning
\* was emitted and the result holds some of the mass, not all.
C30_Witness ==
    /\ sp.op = "calculate_log_spectrum"
    /\ sp.outcome = "ok"
    /\ sp.warned
    /\ Len(sp.linear.values) = 2
    /\ sp.linear.values[1] > 0
    /\ sp.components >= 2
    /\ 0 < PlainSum(sp.result.values)
    /\ PlainSum(sp.result.values) < PlainSum(sp.linear.values)

====
